---- MODULE Spec2Model ----
(***************************************************************************)
(* my-one-note: the encryption-at-rest layer of page content               *)
(* (utils/encryption.py), its use by the persistence layer (utils/db.py),  *)
(* the re-key script (reencrypt_db.py), the login state (utils/auth.py),   *)
(* the notebooks, sections and pages tables (utils/db.py) and the page     *)
(* editor (app.py).                                                        *)
(*                                                                         *)
(* Values.  A Python str is a sequence of string atoms, a Python bytes a   *)
(* sequence of byte atoms.  Every atom is a tuple whose first element is   *)
(* its tag:                                                                *)
(*   <<"ch", cp>>        one character, code point cp                      *)
(*   <<"by", n>>         one byte, 0..255                                  *)
(*   <<"tok", k, p, iv, m>>  the bytes of one Fernet token: key k,         *)
(*                       plaintext p, nonce iv, m = 0 as produced and      *)
(*                       m > 0 for a copy whose bytes were modified        *)
(*   <<"lit", s>>        the ASCII bytes of the literal s                  *)
(*   <<"txt", b>>        the characters of the ASCII bytes b (b a "tok" or *)
(*                       "lit" atom)                                       *)
(*   <<"hex", b>>        the lowercase hex digits of the bytes b           *)
(*   <<"hexb", b>>       the ASCII bytes of those hex digits               *)
(*   <<"json", v, fmt>>  the bytes of the JSON text of the entry v of a    *)
(*                       document, as first written (fmt = "src") or as    *)
(*                       json.dumps(indent=2) writes it (fmt = "indent2")  *)
(* Fernet and PBKDF2 are the library's: a token opens under the key that   *)
(* made it and only unmodified, distinct inputs derive distinct keys.      *)
(* Optional values are <<"None">> or <<"Some", v>>; the outcome of a call  *)
(* that may raise is <<"ok", v>> or <<"raise", e>>.                        *)
(***************************************************************************)
EXTENDS Integers, Sequences, FiniteSets, TLC

None == <<"None">>
Some(v) == <<"Some", v>>
IsNone(o) == o[1] = "None"
Val(o) == o[2]

Ok(v) == <<"ok", v>>
Raise(e) == <<"raise", e>>
IsOk(r) == r[1] = "ok"

Ch(cp) == <<"ch", cp>>
By(n) == <<"by", n>>
Lit(s) == <<"lit", s>>
Txt(b) == <<"txt", b>>
HexRun(b) == <<"hex", b>>
HexBytes(b) == <<"hexb", b>>
Tok(k, p, iv, m) == <<"tok", k, p, iv, m>>
Json(v, fmt) == <<"json", v, fmt>>
IsRun(b) == b[1] \in {"tok", "lit", "hexb", "json"}

\* str literals used by the code
Str(cps) == [i \in 1..Len(cps) |-> Ch(cps[i])]
ENC_MARKER == Str(<<69, 78, 67, 58>>)
ERR_DECRYPT == << Txt(Lit("Error decrypting content")) >>
ERR_DISABLED == << Txt(Lit("Content is encrypted but encryption is disabled.")) >>

----------------------------------------------------------------------------
(* str.encode('utf-8') and bytes.decode('utf-8') *)

Utf8OfChar(a) ==
    IF a[1] = "txt" THEN << a[2] >>
    ELSE IF a[1] = "hex" THEN << HexBytes(a[2]) >>
    ELSE LET cp == a[2] IN
         IF cp < 128 THEN << By(cp) >>
         ELSE IF cp < 2048 THEN << By(192 + cp \div 64), By(128 + (cp % 64)) >>
         ELSE IF cp < 65536 THEN
              << By(224 + cp \div 4096), By(128 + ((cp \div 64) % 64)), By(128 + (cp % 64)) >>
         ELSE << By(240 + cp \div 262144), By(128 + ((cp \div 4096) % 64)),
                 By(128 + ((cp \div 64) % 64)), By(128 + (cp % 64)) >>

RECURSIVE Utf8Encode(_)
Utf8Encode(s) ==
    IF s = <<>> THEN <<>> ELSE Utf8OfChar(Head(s)) \o Utf8Encode(Tail(s))

IsCont(b, i) == i <= Len(b) /\ b[i][1] = "by" /\ b[i][2] \in 128..191
ContVal(b, i) == b[i][2] - 128

\* the result is Ok(str) or Raise("UnicodeDecodeError")
RECURSIVE Utf8Decode(_)
Utf8Decode(b) ==
    IF b = <<>> THEN Ok(<<>>)
    ELSE LET h == Head(b)
             Rest(n, c) ==
                 LET r == Utf8Decode(SubSeq(b, n + 1, Len(b))) IN
                 IF IsOk(r) THEN Ok(<< c >> \o r[2]) ELSE r
             Bad == Raise("UnicodeDecodeError")
         IN
         IF h[1] = "hexb" THEN Rest(1, HexRun(h[2]))
         ELSE IF IsRun(h) THEN Rest(1, Txt(h))
         ELSE LET n == h[2] IN
              IF n < 128 THEN Rest(1, Ch(n))
              ELSE IF n \in 194..223 THEN
                   IF IsCont(b, 2) THEN Rest(2, Ch((n - 192) * 64 + ContVal(b, 2))) ELSE Bad
              ELSE IF n \in 224..239 THEN
                   IF IsCont(b, 2) /\ IsCont(b, 3) THEN
                      LET cp == (n - 224) * 4096 + ContVal(b, 2) * 64 + ContVal(b, 3) IN
                      IF cp < 2048 \/ cp \in 55296..57343 THEN Bad ELSE Rest(3, Ch(cp))
                   ELSE Bad
              ELSE IF n \in 240..244 THEN
                   IF IsCont(b, 2) /\ IsCont(b, 3) /\ IsCont(b, 4) THEN
                      LET cp == (n - 240) * 262144 + ContVal(b, 2) * 4096
                                + ContVal(b, 3) * 64 + ContVal(b, 4) IN
                      IF cp < 65536 \/ cp > 1114111 THEN Bad ELSE Rest(4, Ch(cp))
                   ELSE Bad
              ELSE Bad

----------------------------------------------------------------------------
(* bytes.hex() and bytes.fromhex() *)

HexDigit(n) == IF n < 10 THEN Ch(48 + n) ELSE Ch(87 + n)

HexOfByte(a) ==
    IF IsRun(a) THEN << HexRun(a) >>
    ELSE << HexDigit(a[2] \div 16), HexDigit((a[2] % 16)) >>

RECURSIVE Hex(_)
Hex(b) == IF b = <<>> THEN <<>> ELSE HexOfByte(Head(b)) \o Hex(Tail(b))

IsHexDigit(a) == a[1] = "ch" /\ a[2] \in (48..57) \cup (97..102) \cup (65..70)
HexVal(a) ==
    IF a[2] \in 48..57 THEN a[2] - 48
    ELSE IF a[2] \in 97..102 THEN a[2] - 87
    ELSE a[2] - 55
IsSpace(a) == a[1] = "ch" /\ a[2] \in {32, 9, 10, 11, 12, 13}

\* the result is Ok(bytes) or Raise("ValueError")
RECURSIVE FromHex(_)
FromHex(s) ==
    IF s = <<>> THEN Ok(<<>>)
    ELSE LET h == Head(s)
             Rest(n, c) ==
                 LET r == FromHex(SubSeq(s, n + 1, Len(s))) IN
                 IF IsOk(r) THEN Ok(c \o r[2]) ELSE r
         IN
         IF IsSpace(h) THEN Rest(1, <<>>)
         ELSE IF h[1] = "hex" THEN Rest(1, << h[2] >>)
         ELSE IF IsHexDigit(h) /\ Len(s) >= 2 /\ IsHexDigit(s[2])
              THEN Rest(2, << By(16 * HexVal(h) + HexVal(s[2])) >>)
         ELSE Raise("ValueError")

\* content.startswith("ENC:") and content[4:]
StartsWith(s, pre) == Len(s) >= Len(pre) /\ SubSeq(s, 1, Len(pre)) = pre
From4(s) == SubSeq(s, 5, Len(s))

----------------------------------------------------------------------------
(* State *)

VARIABLES
    HAS_CRYPTOGRAPHY,   \* encryption.py: the cryptography import succeeded
    st_secrets,         \* st.secrets.get("ENCRYPTION_MASTER_KEY", None), or SecretsRaise
    environ,            \* os.getenv("ENCRYPTION_MASTER_KEY", None)
    SessionLocal,       \* db.py: the session factory exists (a database is configured)
    pages,              \* the pages table: the content column of each page, or NoPage
    db_call,            \* the last call of the persistence layer and what it returned
    enc_call,           \* the last encrypt_data call
    dec_call,           \* the last decrypt_data call
    key_calls,          \* two derive_user_key calls: an earlier one and the last one
    enabled_call,       \* the last is_encryption_enabled call
    NOTEBOOKS_FILE,     \* reencrypt_db.py: the bytes of data/notebooks.json, or NoFile
    reencrypt_call,     \* the last run of reencrypt()
    HAS_STREAMLIT,      \* auth.py: the streamlit import succeeded
    st_attrs,           \* which of st.user.is_logged_in, st.login, st.logout exist
    st_user_is_logged_in,   \* st.user.is_logged_in: the platform's persisted login
    session_state,      \* the keys of st.session_state of the session being served
    auth_call,          \* the last call of auth.py and what it returned
    last_logout,        \* the session_state logout() found, while no login completed since
    tbl_notebooks,      \* db.py: the rows <<id, user_email, name>> of table notebooks
    tbl_sections,       \* the rows <<id, notebook_id, name>> of table sections
    tbl_pages,          \* the rows <<id, section_id, name>> of table pages
    uuid_count,         \* how many ids uuid.uuid4() has handed out
    crud_call,          \* the last call that creates, renames or deletes, and its result
    in_flight,          \* per session: the create call that has checked and not yet inserted
    selected_page,      \* app.py: st.session_state.selected_page, None or Some(k)
    page_content,       \* st.session_state.page_content
    save_clicked,       \* st.session_state.save_clicked
    rerun_pending,      \* st.rerun() was called: the script runs again before any input
    opened,             \* what the last click on the page found: <<row, str shown>>
    edited              \* the user typed into the editor since that click

cfg_vars == <<HAS_CRYPTOGRAPHY, st_secrets, environ>>
db_vars == <<SessionLocal, pages, db_call>>
log_vars == <<enc_call, dec_call, key_calls, enabled_call>>
file_vars == <<NOTEBOOKS_FILE, reencrypt_call>>
env_vars == <<HAS_STREAMLIT, st_attrs>>
auth_vars == <<HAS_STREAMLIT, st_attrs, st_user_is_logged_in, session_state, auth_call,
               last_logout>>
tbl_vars == <<tbl_notebooks, tbl_sections, tbl_pages, uuid_count, crud_call, in_flight>>
ui_vars == <<selected_page, page_content, save_clicked, rerun_pending, opened, edited>>
vars == <<HAS_CRYPTOGRAPHY, st_secrets, environ, SessionLocal, pages, db_call,
          enc_call, dec_call, key_calls, enabled_call, NOTEBOOKS_FILE, reencrypt_call,
          HAS_STREAMLIT, st_attrs, st_user_is_logged_in, session_state, auth_call,
          last_logout, tbl_notebooks, tbl_sections, tbl_pages, uuid_count, crud_call,
          in_flight, selected_page, page_content, save_clicked, rerun_pending, opened,
          edited>>

\* the two master secrets of the re-key script, and a secret that is no base64
OLD_KEY_STR == "0Im_YI3xVEbQqd6W2q7vqjulidabo3EW1nNHX_Y_N1E="
NEW_KEY_STR == "B1H0xgRBN7ERpLlOiqnJDf_h3FzuJuFQcaqdv4Y7zds="
RAW_KEY_STR == "passphrase"
PBKDF2_ITERATIONS == 100000

\* st.secrets.get raising AttributeError or KeyError (or streamlit missing)
SecretsRaise == <<"Raise">>
SecretsValues == {SecretsRaise, None, Some(""), Some(NEW_KEY_STR)}
EnvironValues == {None, Some(OLD_KEY_STR), Some(RAW_KEY_STR)}
\* the configurations the persistence layer is run under: no secret, one secret, and
\* a second secret that the first takes precedence over
DbSecretsValues == {None, Some(NEW_KEY_STR)}
DbEnvironValues == {None, Some(OLD_KEY_STR)}

UserIds == {"default_user", "alice"}
NoCall == <<"none">>
NoPage == <<"nopage">>
NoFile == <<"nofile">>
File(bytes) == <<"file", bytes>>
Bytes(file) == file[2]

----------------------------------------------------------------------------
(* utils/encryption.py *)

\* base64.urlsafe_b64decode(s.encode()): the decoded bytes, or binascii.Error
urlsafe_b64decode(s) ==
    IF s \in {OLD_KEY_STR, NEW_KEY_STR} THEN Ok(<<"b64dec", s>>)
    ELSE IF s = "" THEN Ok(<<"utf8", "">>)
    ELSE Raise("binascii.Error")

\* "if master_key_str:" on an optional str
Truthy(o) == o[1] = "Some" /\ o[2] # ""

\* the key string decoded if it is base64 and as its own bytes otherwise
KeyBytes(s) ==
    LET r == urlsafe_b64decode(s) IN IF IsOk(r) THEN r[2] ELSE <<"utf8", s>>

\* a plausible slip: the environment variable is not consulted
get_master_key_SecretsOnly ==
    IF Truthy(st_secrets) THEN Some(KeyBytes(Val(st_secrets))) ELSE None

get_master_key ==
    LET from_secrets == IF st_secrets = SecretsRaise THEN None ELSE st_secrets
        master_key_str == IF Truthy(from_secrets) THEN from_secrets ELSE environ
    IN  IF Truthy(master_key_str) THEN Some(KeyBytes(Val(master_key_str))) ELSE None

\* a plausible slip: the explicit master key is ignored and the configured one used
derive_user_key_Ambient(user_id, master_key) ==
    LET mk == get_master_key
        key_material ==
            IF IsNone(mk) THEN <<"sha256", <<"default_key_", user_id>>>>
            ELSE <<"pbkdf2", Val(mk), <<"utf8", user_id>>, PBKDF2_ITERATIONS>>
    IN  <<"b64", key_material>>

\* a plausible slip: the default key does not depend on the user
derive_user_key_SharedDefault(user_id, master_key) ==
    LET mk == IF IsNone(master_key) THEN get_master_key ELSE master_key
        key_material ==
            IF IsNone(mk) THEN <<"sha256", <<"default_key_">>>>
            ELSE <<"pbkdf2", Val(mk), <<"utf8", user_id>>, PBKDF2_ITERATIONS>>
    IN  <<"b64", key_material>>

derive_user_key(user_id, master_key) ==
    LET mk == IF IsNone(master_key) THEN get_master_key ELSE master_key
        key_material ==
            IF IsNone(mk) THEN <<"sha256", <<"default_key_", user_id>>>>
            ELSE <<"pbkdf2", Val(mk), <<"utf8", user_id>>, PBKDF2_ITERATIONS>>
    IN  <<"b64", key_material>>

get_user_fernet(user_id) ==
    IF ~HAS_CRYPTOGRAPHY THEN None
    ELSE Some(<<"Fernet", derive_user_key(user_id, None)>>)

\* a bytes value: no element of it is a character of a str
IsBytes(data) == \A i \in 1..Len(data) : data[i][1] \notin {"ch", "txt", "hex"}

\* Fernet.encrypt: a fresh token under the cipher's key, or TypeError for data
\* that is not bytes; a nonce below 1 stands for os.urandom having none to give
Fernet_encrypt(f, data, iv) ==
    IF ~IsBytes(data) THEN Raise("TypeError")
    ELSE IF iv < 1 THEN Raise("OSError")
    ELSE Ok(<< Tok(f[2], data, iv, 0) >>)

\* Fernet.decrypt: the plaintext of an unmodified token of this key, or InvalidToken
Fernet_decrypt(f, token) ==
    IF Len(token) = 1 /\ token[1][1] = "tok" /\ token[1][2] = f[2] /\ token[1][5] = 0
    THEN Ok(token[1][3])
    ELSE Raise("InvalidToken")

\* a plausible slip: the user_id is not passed on, the default user's key is used
encrypt_data_DefaultUser(data, user_id, iv) ==
    LET fernet == get_user_fernet("default_user") IN
    IF IsNone(fernet) THEN Ok(data)
    ELSE LET r == Fernet_encrypt(Val(fernet), data, iv) IN
         IF IsOk(r) THEN r ELSE Ok(data)

\* a plausible slip: the exception of fernet.encrypt is not caught
encrypt_data_NoExcept(data, user_id, iv) ==
    LET fernet == get_user_fernet(user_id) IN
    IF IsNone(fernet) THEN Ok(data)
    ELSE Fernet_encrypt(Val(fernet), data, iv)

\* an exception of fernet.encrypt is caught and the input returned
encrypt_data(data, user_id, iv) ==
    LET fernet == get_user_fernet(user_id) IN
    IF IsNone(fernet) THEN Ok(data)
    ELSE LET r == Fernet_encrypt(Val(fernet), data, iv) IN
         IF IsOk(r) THEN r ELSE Ok(data)

\* InvalidToken is caught and the input returned: decrypt_data never raises
decrypt_data(encrypted_data, user_id) ==
    LET fernet == get_user_fernet(user_id) IN
    IF IsNone(fernet) THEN Ok(encrypted_data)
    ELSE LET r == Fernet_decrypt(Val(fernet), encrypted_data) IN
         IF IsOk(r) THEN r ELSE Ok(encrypted_data)

\* a plausible slip: the library check is left out
is_encryption_enabled_NoLibraryCheck == ~IsNone(get_master_key)

is_encryption_enabled ==
    IF ~HAS_CRYPTOGRAPHY THEN FALSE ELSE ~IsNone(get_master_key)

\* reencrypt_db.py: derive_user_key(user_id, master_key_str)
reencrypt_derive_user_key(user_id, master_key_str) ==
    <<"b64", <<"pbkdf2", KeyBytes(master_key_str), <<"utf8", user_id>>, PBKDF2_ITERATIONS>>>>

----------------------------------------------------------------------------
(* reencrypt_db.py: the re-key script.  data/notebooks.json holds one JSON         *)
(* document; a document is the sequence of its entries.                           *)

\* json.loads: the document of a text made of the JSON texts of its entries, or
\* JSONDecodeError (also for the empty text)
json_loads(s) ==
    IF s # <<>> /\ \A i \in 1..Len(s) : s[i][1] = "txt" /\ s[i][2][1] = "json"
    THEN Ok([i \in 1..Len(s) |-> s[i][2][2]])
    ELSE Raise("JSONDecodeError")

\* json.dumps(json_data, indent=2)
json_dumps(json_data) == [i \in 1..Len(json_data) |-> Txt(Json(json_data[i], "indent2"))]

\* a plausible slip: data that cannot be read is encrypted as it is
reencrypt_WriteOnFailure(iv) ==
    IF NOTEBOOKS_FILE = NoFile THEN <<NOTEBOOKS_FILE, "no_file">>
    ELSE LET f_old == <<"Fernet", reencrypt_derive_user_key("default_user", OLD_KEY_STR)>>
             f_new == <<"Fernet", reencrypt_derive_user_key("default_user", NEW_KEY_STR)>>
             decrypted_data == Fernet_decrypt(f_old, Bytes(NOTEBOOKS_FILE))
             raw == IF IsOk(decrypted_data) THEN decrypted_data[2] ELSE Bytes(NOTEBOOKS_FILE)
             text == Utf8Decode(raw)
             parsed == IF IsOk(text) THEN json_loads(text[2]) ELSE text
             data == IF IsOk(parsed) THEN Utf8Encode(json_dumps(parsed[2])) ELSE raw
         IN  <<File(Fernet_encrypt(f_new, data, iv)[2]), "saved">>

\* a plausible slip: the file is opened for writing before it is known to be readable
reencrypt_TruncateOnFailure(iv) ==
    IF NOTEBOOKS_FILE = NoFile THEN <<NOTEBOOKS_FILE, "no_file">>
    ELSE LET f_old == <<"Fernet", reencrypt_derive_user_key("default_user", OLD_KEY_STR)>>
             f_new == <<"Fernet", reencrypt_derive_user_key("default_user", NEW_KEY_STR)>>
             decrypted_data == Fernet_decrypt(f_old, Bytes(NOTEBOOKS_FILE))
             raw == IF IsOk(decrypted_data) THEN decrypted_data[2] ELSE Bytes(NOTEBOOKS_FILE)
             text == Utf8Decode(raw)
             parsed == IF IsOk(text) THEN json_loads(text[2]) ELSE text
         IN  IF IsOk(parsed)
             THEN <<File(Fernet_encrypt(f_new, Utf8Encode(json_dumps(parsed[2])), iv)[2]),
                    "saved">>
             ELSE <<File(<<>>), "fatal">>

\* a plausible slip: the new key is derived for another user
reencrypt_OtherUser(iv) ==
    IF NOTEBOOKS_FILE = NoFile THEN <<NOTEBOOKS_FILE, "no_file">>
    ELSE LET f_old == <<"Fernet", reencrypt_derive_user_key("default_user", OLD_KEY_STR)>>
             f_new == <<"Fernet", reencrypt_derive_user_key("", NEW_KEY_STR)>>
             decrypted_data == Fernet_decrypt(f_old, Bytes(NOTEBOOKS_FILE))
             raw == IF IsOk(decrypted_data) THEN decrypted_data[2] ELSE Bytes(NOTEBOOKS_FILE)
             text == Utf8Decode(raw)
             parsed == IF IsOk(text) THEN json_loads(text[2]) ELSE text
         IN  IF IsOk(parsed)
             THEN <<File(Fernet_encrypt(f_new, Utf8Encode(json_dumps(parsed[2])), iv)[2]),
                    "saved">>
             ELSE <<NOTEBOOKS_FILE, "fatal">>

\* reencrypt(): <<the file after the run, what the run printed last>>
reencrypt(iv) ==
    IF NOTEBOOKS_FILE = NoFile THEN <<NOTEBOOKS_FILE, "no_file">>
    ELSE LET encrypted_data == Bytes(NOTEBOOKS_FILE)
             old_user_key == reencrypt_derive_user_key("default_user", OLD_KEY_STR)
             f_old == <<"Fernet", old_user_key>>
             decrypted_data == Fernet_decrypt(f_old, encrypted_data)
             decoded == IF IsOk(decrypted_data) THEN Utf8Decode(decrypted_data[2])
                        ELSE decrypted_data
             with_old_key == IF IsOk(decoded) THEN json_loads(decoded[2]) ELSE decoded
             \* open(NOTEBOOKS_FILE, 'r') and json.load: the text of the file as UTF-8
             as_text == Utf8Decode(Bytes(NOTEBOOKS_FILE))
             as_plain_text == IF IsOk(as_text) THEN json_loads(as_text[2]) ELSE as_text
             json_data == IF IsOk(with_old_key) THEN with_old_key ELSE as_plain_text
         IN  IF ~IsOk(json_data) THEN <<NOTEBOOKS_FILE, "fatal">>
             ELSE LET new_user_key == reencrypt_derive_user_key("default_user", NEW_KEY_STR)
                      f_new == <<"Fernet", new_user_key>>
                      data_str == json_dumps(json_data[2])
                      new_encrypted_data == Fernet_encrypt(f_new, Utf8Encode(data_str), iv)
                  IN  IF IsOk(new_encrypted_data)
                      THEN <<File(new_encrypted_data[2]), "saved">>
                      ELSE <<NOTEBOOKS_FILE, "encrypt_failed">>

----------------------------------------------------------------------------
(* utils/db.py: a page is found by its notebook, section name and page name; the  *)
(* key k of pages stands for that triple, and pages[k] = NoPage for a section or  *)
(* page the two queries do not find.  The database answers every query.           *)

Row(content) == <<"page", content>>
Content(row) == row[2]
DEFAULT_USER == "default_user"

\* create_page_db: the table after the call and the value returned
create_page_db(k) ==
    IF ~SessionLocal THEN <<pages, FALSE>>
    ELSE IF pages[k] # NoPage THEN <<pages, FALSE>>
    ELSE <<[pages EXCEPT ![k] = Row(<<>>)], TRUE>>

\* delete_page_db: the table after the call and the value returned
delete_page_db(k) ==
    IF ~SessionLocal THEN <<pages, FALSE>>
    ELSE IF pages[k] # NoPage THEN <<[pages EXCEPT ![k] = NoPage], TRUE>>
    ELSE <<pages, FALSE>>

\* a plausible slip: the marker is left out of the stored value
save_page_content_db_NoMarker(k, content, iv) ==
    IF ~SessionLocal THEN pages
    ELSE IF pages[k] = NoPage THEN pages
    ELSE IF is_encryption_enabled
         THEN LET encrypted_bytes == encrypt_data(Utf8Encode(content), DEFAULT_USER, iv)[2]
              IN  [pages EXCEPT ![k] = Row(Hex(encrypted_bytes))]
         ELSE [pages EXCEPT ![k] = Row(content)]

\* a plausible slip: a save keeps the representation the row already has
save_page_content_db_KeepRepresentation(k, content, iv) ==
    IF ~SessionLocal THEN pages
    ELSE IF pages[k] = NoPage THEN pages
    ELSE IF HAS_CRYPTOGRAPHY /\ StartsWith(Content(pages[k]), ENC_MARKER)
         THEN LET encrypted_bytes == encrypt_data(Utf8Encode(content), DEFAULT_USER, iv)[2]
              IN  [pages EXCEPT ![k] = Row(ENC_MARKER \o Hex(encrypted_bytes))]
         ELSE [pages EXCEPT ![k] = Row(content)]

\* save_page_content_db: the table after the call
save_page_content_db(k, content, iv) ==
    IF ~SessionLocal THEN pages
    ELSE IF pages[k] = NoPage THEN pages
    ELSE IF is_encryption_enabled
         THEN LET encrypted_bytes == encrypt_data(Utf8Encode(content), DEFAULT_USER, iv)[2]
              IN  [pages EXCEPT ![k] = Row(ENC_MARKER \o Hex(encrypted_bytes))]
         ELSE [pages EXCEPT ![k] = Row(content)]

\* a plausible slip: the marker is not looked at while encryption is enabled
load_page_content_db_NoDispatch(k) ==
    IF ~SessionLocal THEN << <<>>, None >>
    ELSE IF pages[k] = NoPage THEN << <<>>, None >>
    ELSE LET content == Content(pages[k]) IN
         IF content # <<>> /\ is_encryption_enabled
         THEN LET h == FromHex(From4(content)) IN
              IF ~IsOk(h) THEN << ERR_DECRYPT, None >>
              ELSE LET d == decrypt_data(h[2], DEFAULT_USER)
                       t == IF IsOk(d) THEN Utf8Decode(d[2]) ELSE d
                   IN  << IF IsOk(t) THEN t[2] ELSE ERR_DECRYPT, Some(h[2]) >>
         ELSE IF content # <<>> /\ StartsWith(content, ENC_MARKER)
              THEN << ERR_DISABLED, None >>
              ELSE << content, None >>

\* load_page_content_db: <<the str returned, the bytes passed to decrypt_data if any>>
load_page_content_db(k) ==
    IF ~SessionLocal THEN << <<>>, None >>
    ELSE IF pages[k] = NoPage THEN << <<>>, None >>
    ELSE LET content == Content(pages[k]) IN
         IF content # <<>> /\ StartsWith(content, ENC_MARKER)
         THEN IF is_encryption_enabled
              THEN LET h == FromHex(From4(content)) IN
                   IF ~IsOk(h) THEN << ERR_DECRYPT, None >>
                   ELSE LET d == decrypt_data(h[2], DEFAULT_USER)
                            t == IF IsOk(d) THEN Utf8Decode(d[2]) ELSE d
                        IN  << IF IsOk(t) THEN t[2] ELSE ERR_DECRYPT, Some(h[2]) >>
              ELSE << ERR_DISABLED, None >>
         ELSE << content, None >>

----------------------------------------------------------------------------
(* utils/auth.py: each function gives the session_state it leaves behind *)

AUTHENTICATED == "authenticated_in_session"
LOGIN_ATTEMPTED == "login_attempted"
USER_ID == "user_id"
SessionKeys == {AUTHENTICATED, LOGIN_ATTEMPTED, USER_ID}
StAttrs == {"user.is_logged_in", "login", "logout"}

\* hasattr(st, 'user') and hasattr(st.user, 'is_logged_in')
has_auth_system == "user.is_logged_in" \in st_attrs

\* a plausible slip: a session that carries the flag is not checked again
is_user_logged_in_TrustsFlag ==
    IF ~HAS_STREAMLIT THEN <<TRUE, session_state>>
    ELSE LET user_is_logged_in == has_auth_system /\ st_user_is_logged_in IN
         IF AUTHENTICATED \in session_state THEN <<TRUE, session_state>>
         ELSE IF LOGIN_ATTEMPTED \in session_state
         THEN IF has_auth_system
              THEN IF user_is_logged_in
                   THEN <<TRUE, session_state \cup {AUTHENTICATED}>>
                   ELSE <<FALSE, session_state>>
              ELSE <<TRUE, session_state \cup {AUTHENTICATED}>>
         ELSE IF has_auth_system /\ user_is_logged_in
         THEN <<TRUE, session_state \cup {AUTHENTICATED}>>
         ELSE <<FALSE, session_state>>

\* is_user_logged_in(): <<the value returned, session_state after the call>>
is_user_logged_in ==
    IF ~HAS_STREAMLIT THEN <<TRUE, session_state>>
    ELSE LET user_is_logged_in == has_auth_system /\ st_user_is_logged_in IN
         IF AUTHENTICATED \in session_state
         THEN IF has_auth_system
              THEN IF user_is_logged_in THEN <<TRUE, session_state>>
                   ELSE <<FALSE, session_state \ {AUTHENTICATED, LOGIN_ATTEMPTED}>>
              ELSE <<TRUE, session_state>>
         ELSE IF LOGIN_ATTEMPTED \in session_state
         THEN IF has_auth_system
              THEN IF user_is_logged_in
                   THEN <<TRUE, session_state \cup {AUTHENTICATED}>>
                   ELSE <<FALSE, session_state>>
              ELSE <<TRUE, session_state \cup {AUTHENTICATED}>>
         ELSE IF has_auth_system /\ user_is_logged_in
         THEN <<TRUE, session_state \cup {AUTHENTICATED}>>
         ELSE <<FALSE, session_state>>

\* login(): session_state after the call; raises tells whether st.login() raised
login(raises) ==
    IF ~HAS_STREAMLIT THEN session_state
    ELSE LET user_already_logged_in == has_auth_system /\ st_user_is_logged_in IN
         IF user_already_logged_in
         THEN (session_state \cup {AUTHENTICATED}) \ {LOGIN_ATTEMPTED}
         ELSE LET attempted == session_state \cup {LOGIN_ATTEMPTED} IN
              IF "login" \in st_attrs
              THEN IF raises THEN attempted \ {LOGIN_ATTEMPTED} ELSE attempted
              ELSE attempted \cup {AUTHENTICATED}

\* a plausible slip: the 'user_id' is left in the session
logout_KeepsUserId(raises) ==
    IF ~HAS_STREAMLIT THEN <<session_state, st_user_is_logged_in>>
    ELSE <<session_state \ {AUTHENTICATED, LOGIN_ATTEMPTED},
           IF "logout" \in st_attrs /\ ~raises THEN FALSE ELSE st_user_is_logged_in>>

\* logout(): <<session_state after the call, st.user.is_logged_in after the call>>;
\* raises tells whether st.logout() raised, and st.logout() clears the login cookie
logout(raises) ==
    IF ~HAS_STREAMLIT THEN <<session_state, st_user_is_logged_in>>
    ELSE <<session_state \ {AUTHENTICATED, LOGIN_ATTEMPTED, USER_ID},
           IF "logout" \in st_attrs /\ ~raises THEN FALSE ELSE st_user_is_logged_in>>

----------------------------------------------------------------------------
(* utils/db.py: the notebooks, sections and pages tables.  A row is          *)
(* <<id, owner, name>>, the owner being the user_email of a notebook, the    *)
(* notebook_id of a section, the section_id of a page.  No table declares a  *)
(* unique constraint on the name.  The pages variable above is the content   *)
(* column of the pages these functions create.  Each function gives          *)
(* <<notebooks, sections, pages, returned>>.                                 *)

Id(r) == r[1]
Owner(r) == r[2]
Name(r) == r[3]
\* the primary key default: an id no row was given before
uuid4 == uuid_count + 1

\* query(T).filter(owner == ..., name == ...)
Matching(table, owner, name) == { r \in table : Owner(r) = owner /\ Name(r) = name }
\* .first() of a query without order_by: the row stored first
first(rows) == CHOOSE r \in rows : \A q \in rows : Id(r) <= Id(q)
\* the row a dict built in iteration order keeps under one key: the row stored last
last(rows) == CHOOSE r \in rows : \A q \in rows : Id(q) <= Id(r)

\* get_session() gave None, a check failed or the except branch rolled back
Refused == <<tbl_notebooks, tbl_sections, tbl_pages, FALSE>>
\* cascade="all, delete-orphan": the sections of deleted notebooks and the pages of
\* deleted sections go with them
PagesLeft(secs, pgs) == { pg \in pgs : \E sc \in secs : Id(sc) = Owner(pg) }

\* get_user_notebooks: notebook id -> section name -> <<section id, page names>>;
\* sections and pages are keyed by name, a later row replacing an earlier one
get_user_notebooks(user_email) ==
    IF ~SessionLocal THEN <<>>
    ELSE [ n \in { Id(nb) : nb \in { r \in tbl_notebooks : Owner(r) = user_email } } |->
             [ name \in { Name(sc) : sc \in { r \in tbl_sections : Owner(r) = n } } |->
                 LET section == last(Matching(tbl_sections, n, name))
                 IN  << Id(section),
                        { Name(pg) : pg \in { r \in tbl_pages : Owner(r) = Id(section) } } >> ] ]

create_notebook_db(user_email, name) ==
    IF ~SessionLocal THEN Refused
    ELSE IF Matching(tbl_notebooks, user_email, name) # {} THEN Refused
    ELSE << tbl_notebooks \cup { <<uuid4, user_email, name>> }, tbl_sections, tbl_pages,
            TRUE >>

update_notebook_name_db(notebook_id, new_name) ==
    IF ~SessionLocal THEN Refused
    ELSE IF \E nb \in tbl_notebooks : Id(nb) = notebook_id
    THEN << { IF Id(nb) = notebook_id THEN <<Id(nb), Owner(nb), new_name>> ELSE nb :
              nb \in tbl_notebooks }, tbl_sections, tbl_pages, TRUE >>
    ELSE Refused

delete_notebook_db(notebook_id) ==
    IF ~SessionLocal THEN Refused
    ELSE IF \E nb \in tbl_notebooks : Id(nb) = notebook_id
    THEN LET nbs == { nb \in tbl_notebooks : Id(nb) # notebook_id }
             secs == { sc \in tbl_sections : \E nb \in nbs : Id(nb) = Owner(sc) }
         IN  << nbs, secs, PagesLeft(secs, tbl_pages), TRUE >>
    ELSE Refused

\* a plausible slip: no check for a section of that name
create_section_db_NoCheck(notebook_id, name) ==
    IF ~SessionLocal THEN Refused
    ELSE << tbl_notebooks, tbl_sections \cup { <<uuid4, notebook_id, name>> }, tbl_pages,
            TRUE >>

create_section_db(notebook_id, name) ==
    IF ~SessionLocal THEN Refused
    ELSE IF Matching(tbl_sections, notebook_id, name) # {} THEN Refused
    ELSE << tbl_notebooks, tbl_sections \cup { <<uuid4, notebook_id, name>> }, tbl_pages,
            TRUE >>

delete_section_db(notebook_id, section_name) ==
    IF ~SessionLocal THEN Refused
    ELSE IF Matching(tbl_sections, notebook_id, section_name) # {}
    THEN LET secs == tbl_sections \ { first(Matching(tbl_sections, notebook_id, section_name)) }
         IN  << tbl_notebooks, secs, PagesLeft(secs, tbl_pages), TRUE >>
    ELSE Refused

\* create_page_db, on the rows of the tables
create_page_db_rows(notebook_id, section_name, page_name) ==
    IF ~SessionLocal THEN Refused
    ELSE IF Matching(tbl_sections, notebook_id, section_name) = {} THEN Refused
    ELSE LET section == first(Matching(tbl_sections, notebook_id, section_name)) IN
         IF Matching(tbl_pages, Id(section), page_name) # {} THEN Refused
         ELSE << tbl_notebooks, tbl_sections,
                 tbl_pages \cup { <<uuid4, Id(section), page_name>> }, TRUE >>

\* delete_page_db, on the rows of the tables
delete_page_db_rows(notebook_id, section_name, page_name) ==
    IF ~SessionLocal THEN Refused
    ELSE IF Matching(tbl_sections, notebook_id, section_name) = {} THEN Refused
    ELSE LET section == first(Matching(tbl_sections, notebook_id, section_name)) IN
         IF Matching(tbl_pages, Id(section), page_name) # {}
         THEN << tbl_notebooks, tbl_sections,
                 tbl_pages \ { first(Matching(tbl_pages, Id(section), page_name)) }, TRUE >>
         ELSE Refused

----------------------------------------------------------------------------
(* app.py: what the buttons of the sidebar call *)

\* str.strip() of the ASCII white space: from the first to the last character that
\* is none
strip(s) ==
    LET kept == { i \in 1..Len(s) : ~IsSpace(s[i]) } IN
    IF kept = {} THEN <<>>
    ELSE SubSeq(s, CHOOSE i \in kept : \A j \in kept : i <= j,
                   CHOOSE i \in kept : \A j \in kept : j <= i)

\* create_notebook, for the user get_user_info() names
create_notebook(user_email, name) ==
    IF name = <<>> \/ strip(name) = <<>> THEN Refused
    ELSE create_notebook_db(user_email, name)

create_section(notebook_id, section_name) ==
    IF section_name = <<>> \/ strip(section_name) = <<>> THEN Refused
    ELSE create_section_db(notebook_id, section_name)

create_page(notebook_id, section_name, page_name) ==
    IF page_name = <<>> \/ strip(page_name) = <<>> THEN Refused
    ELSE create_page_db_rows(notebook_id, section_name, page_name)

update_notebook_name(notebook_id, new_name) ==
    IF new_name = <<>> \/ strip(new_name) = <<>> THEN Refused
    ELSE update_notebook_name_db(notebook_id, new_name)

----------------------------------------------------------------------------
(* Bounds and inputs *)

MaxNonce == 2       \* Fernet nonces (IV and timestamp) told apart
MaxMod == 1         \* modified copies of one envelope told apart
NumPages == 1       \* pages of the table
MaxEntries == 2     \* entries of the JSON document in data/notebooks.json
MaxRows == 3        \* rows ever inserted into the notebooks, sections and pages tables
Nonces == 1..MaxNonce
PageKeys == 1..NumPages
Mods == 0..MaxMod

Plaintexts == { <<>>, << By(97) >>, << By(195), By(169) >> }
\* the inputs of derive_user_key: the identifiers and the empty one, no master key,
\* two master keys and the empty one
EMPTY_KEY == <<"utf8", "">>
DeriveUserIds == UserIds \cup {""}
\* what a caller may pass to encrypt_data: bytes, or by mistake a str
EncryptInputs == Plaintexts \cup { Str(<<97>>), Str(<<233>>) }
DeriveKeys == { None, Some(KeyBytes(OLD_KEY_STR)), Some(KeyBytes(RAW_KEY_STR)),
                Some(EMPTY_KEY) }
KeyStrs == { OLD_KEY_STR, RAW_KEY_STR, "" }

\* page contents: "", "e-acute", and texts that begin with the marker themselves:
\* "ENC:c3a9" (hex of bytes that are no token), "ENC:zz" (no hex), "ENC:ab" (hex of
\* a byte that is no UTF-8)
Contents ==
    { <<>>,
      Str(<<233>>),
      ENC_MARKER \o Str(<<99, 51, 97, 57>>),
      ENC_MARKER \o Str(<<122, 122>>),
      ENC_MARKER \o Str(<<97, 98>>) }

\* a copy of the bytes b, unmodified (m = 0) or modified
Modified(b, m) ==
    IF m = 0 THEN b
    ELSE IF Len(b) = 1 /\ b[1][1] = "tok"
         THEN << Tok(b[1][2], b[1][3], b[1][4], m) >>
         ELSE b \o << By(m) >>

\* the documents data/notebooks.json may hold and the bytes of a document as the
\* application first wrote it
Entries == {"n1", "n2"}
Docs == UNION { [1..n -> Entries] : n \in 1..MaxEntries }
JsonBytes(doc) == [i \in 1..Len(doc) |-> Json(doc[i], "src")]
\* the bytes of a document whose entry i was overwritten by a byte that is no text
Damaged(doc, i) == [JsonBytes(doc) EXCEPT ![i] = By(255)]
OLD_USER_KEY == reencrypt_derive_user_key("default_user", OLD_KEY_STR)
\* what the re-key script may find: no file, an empty file, a document encrypted
\* under the old secret, a document in plain text, a plain-text document with one
\* damaged entry, and envelopes it cannot read: a modified one, one of another
\* user's key, one that holds no JSON
InitialFiles ==
    { NoFile, File(<<>>), File(<< Tok(OLD_USER_KEY, << By(97) >>, 0, 0) >>) }
    \cup { File(<< Tok(OLD_USER_KEY, JsonBytes(doc), 0, 0) >>) : doc \in Docs }
    \cup { File(JsonBytes(doc)) : doc \in Docs }
    \cup UNION { { File(Damaged(doc, i)) : i \in 1..Len(doc) } : doc \in Docs }
    \cup { File(<< Tok(OLD_USER_KEY, JsonBytes(doc), 0, 1) >>) : doc \in Docs }
    \cup { File(<< Tok(reencrypt_derive_user_key("alice", OLD_KEY_STR),
                       JsonBytes(doc), 0, 0) >>) : doc \in Docs }

\* the browser sessions that call the persistence layer side by side
Sessions == {"s1", "s2"}

\* the tables hold no row and no call is under way
NoTables ==
    /\ tbl_notebooks = {}
    /\ tbl_sections = {}
    /\ tbl_pages = {}
    /\ uuid_count = 0
    /\ crud_call = NoCall
    /\ in_flight = [s \in Sessions |-> NoCall]

\* app.py initialize_session_state: no page selected, nothing in the editor
NoEditor ==
    /\ selected_page = None
    /\ page_content = <<>>
    /\ save_clicked = FALSE
    /\ rerun_pending = FALSE
    /\ opened = None
    /\ edited = FALSE

\* no session is served: streamlit without authentication, nothing in session_state
NoSession ==
    /\ HAS_STREAMLIT = TRUE
    /\ st_attrs = {}
    /\ st_user_is_logged_in = FALSE
    /\ session_state = {}
    /\ auth_call = NoCall
    /\ last_logout = None

\* the state after import: nothing called yet, no page in the table
Fresh ==
    /\ HAS_CRYPTOGRAPHY \in BOOLEAN
    /\ SessionLocal \in BOOLEAN
    /\ pages = [k \in PageKeys |-> NoPage]
    /\ db_call = NoCall
    /\ enc_call = NoCall
    /\ dec_call = NoCall
    /\ key_calls = <<NoCall, NoCall>>
    /\ enabled_call = NoCall
    /\ NOTEBOOKS_FILE = NoFile
    /\ reencrypt_call = NoCall
    /\ NoSession
    /\ NoTables
    /\ NoEditor

Init ==
    /\ st_secrets \in SecretsValues
    /\ environ \in EnvironValues
    /\ Fresh

InitDb ==
    /\ st_secrets \in DbSecretsValues
    /\ environ \in DbEnvironValues
    /\ Fresh

----------------------------------------------------------------------------
(* The configuration changes under the running process *)

SetSecrets(v) ==
    /\ v # st_secrets
    /\ st_secrets' = v
    /\ UNCHANGED <<HAS_CRYPTOGRAPHY, environ, db_vars, log_vars, file_vars, tbl_vars, ui_vars, auth_vars>>

SetEnviron(v) ==
    /\ v # environ
    /\ environ' = v
    /\ UNCHANGED <<HAS_CRYPTOGRAPHY, st_secrets, db_vars, log_vars, file_vars, tbl_vars, ui_vars, auth_vars>>

Configure ==
    \/ \E v \in SecretsValues : SetSecrets(v)
    \/ \E v \in EnvironValues : SetEnviron(v)

ConfigureDb ==
    \/ \E v \in DbSecretsValues : SetSecrets(v)
    \/ \E v \in DbEnvironValues : SetEnviron(v)

----------------------------------------------------------------------------
(* Calls of the cipher, each recorded with the configuration it ran under *)

\* <<"enc", data, user_id, outcome, is_encryption_enabled(), get_master_key()>>
EncryptCall(data, user_id, iv) ==
    /\ enc_call' = <<"enc", data, user_id, encrypt_data(data, user_id, iv),
                     is_encryption_enabled, get_master_key>>
    /\ dec_call' = NoCall
    /\ UNCHANGED <<cfg_vars, db_vars, key_calls, enabled_call, file_vars, tbl_vars, ui_vars, auth_vars>>

\* <<"dec", m, user_id, outcome, is_encryption_enabled(), get_master_key()>>:
\* decrypt_data on copy m of what the recorded encrypt_data call returned
DecryptCall(user_id, m) ==
    /\ enc_call # NoCall
    /\ dec_call' = <<"dec", m, user_id,
                     decrypt_data(Modified(enc_call[4][2], m), user_id),
                     is_encryption_enabled, get_master_key>>
    /\ UNCHANGED <<cfg_vars, db_vars, enc_call, key_calls, enabled_call, file_vars, tbl_vars, ui_vars, auth_vars>>

\* <<"key", which, user_id, master, outcome, get_master_key()>>; the earlier call
\* kept is either of the two kept so far.  The outcome is the key returned, or
\* <<"raise", "NameError">> where a master key reaches PBKDF2HMAC and the import of
\* the cryptography library had failed.
DeriveCall(user_id, master_key) ==
    /\ \E earlier \in {key_calls[1], key_calls[2]} :
          key_calls' = << earlier,
                          <<"key", "encryption", user_id, master_key,
                            IF ~HAS_CRYPTOGRAPHY
                               /\ ~(IsNone(master_key) /\ IsNone(get_master_key))
                            THEN Raise("NameError")
                            ELSE derive_user_key(user_id, master_key),
                            get_master_key>> >>
    /\ UNCHANGED <<cfg_vars, db_vars, enc_call, dec_call, enabled_call, file_vars, tbl_vars, ui_vars, auth_vars>>

\* reencrypt_db.py imports the cryptography library unguarded: it runs only with it
ReencryptDeriveCall(user_id, master_key_str) ==
    /\ HAS_CRYPTOGRAPHY
    /\ \E earlier \in {key_calls[1], key_calls[2]} :
          key_calls' = << earlier,
                          <<"key", "reencrypt_db", user_id, <<"str", master_key_str>>,
                            reencrypt_derive_user_key(user_id, master_key_str),
                            get_master_key>> >>
    /\ UNCHANGED <<cfg_vars, db_vars, enc_call, dec_call, enabled_call, file_vars, tbl_vars, ui_vars, auth_vars>>

\* <<"enabled", result, st_secrets, environ, result of the call before>>
IsEnabledCall ==
    /\ enabled_call' = <<"enabled", is_encryption_enabled, st_secrets, environ,
                         IF enabled_call = NoCall THEN None ELSE Some(enabled_call[2])>>
    /\ UNCHANGED <<cfg_vars, db_vars, enc_call, dec_call, key_calls, file_vars, tbl_vars, ui_vars, auth_vars>>

NextCipher ==
    \/ Configure
    \/ \E data \in Plaintexts, user_id \in UserIds, iv \in Nonces :
          EncryptCall(data, user_id, iv)
    \/ \E user_id \in UserIds, m \in Mods : DecryptCall(user_id, m)

NextKeys ==
    \/ Configure
    \/ \E user_id \in DeriveUserIds, mk \in DeriveKeys : DeriveCall(user_id, mk)
    \/ \E user_id \in DeriveUserIds, str \in KeyStrs : ReencryptDeriveCall(user_id, str)

NextEnabled ==
    \/ Configure
    \/ IsEnabledCall

NextEncrypt ==
    \/ Configure
    \/ \E data \in EncryptInputs, user_id \in UserIds, iv \in Nonces :
          EncryptCall(data, user_id, iv)

SpecCipher == Init /\ [][NextCipher]_vars
SpecEncrypt == Init /\ [][NextEncrypt]_vars
SpecKeys == Init /\ [][NextKeys]_vars
SpecEnabled == Init /\ [][NextEnabled]_vars

----------------------------------------------------------------------------
(* Calls of the persistence layer *)

\* <<"create", k, returned>>
CreatePage(k) ==
    /\ pages' = create_page_db(k)[1]
    /\ db_call' = <<"create", k, create_page_db(k)[2]>>
    /\ UNCHANGED <<cfg_vars, SessionLocal, log_vars, file_vars, tbl_vars, ui_vars, auth_vars>>

\* <<"delete", k, returned>>
DeletePage(k) ==
    /\ pages' = delete_page_db(k)[1]
    /\ db_call' = <<"delete", k, delete_page_db(k)[2]>>
    /\ UNCHANGED <<cfg_vars, SessionLocal, log_vars, file_vars, tbl_vars, ui_vars, auth_vars>>

\* <<"save", k, content, the page existed, row after, is_encryption_enabled(),
\*   get_master_key()>>
SavePage(k, content, iv) ==
    /\ pages' = save_page_content_db(k, content, iv)
    /\ db_call' = <<"save", k, content, SessionLocal /\ pages[k] # NoPage, pages'[k],
                    is_encryption_enabled, get_master_key>>
    /\ UNCHANGED <<cfg_vars, SessionLocal, log_vars, file_vars, tbl_vars, ui_vars, auth_vars>>

\* <<"load", k, str returned, bytes passed to decrypt_data, row read,
\*   is_encryption_enabled(), get_master_key(), the save this load follows>>;
\* the last is Some(<<content, the page existed, get_master_key()>>) of the save
\* when the call before this one was a save of the same page
LoadPage(k) ==
    /\ db_call' = <<"load", k, load_page_content_db(k)[1], load_page_content_db(k)[2],
                    pages[k], is_encryption_enabled, get_master_key,
                    IF db_call[1] = "save" /\ db_call[2] = k
                    THEN Some(<<db_call[3], db_call[4], db_call[7]>>) ELSE None>>
    /\ UNCHANGED <<cfg_vars, SessionLocal, pages, log_vars, file_vars, tbl_vars, ui_vars, auth_vars>>

Next ==
    \/ ConfigureDb
    \/ \E k \in PageKeys : CreatePage(k)
    \/ \E k \in PageKeys : DeletePage(k)
    \/ \E k \in PageKeys, content \in Contents, iv \in Nonces : SavePage(k, content, iv)
    \/ \E k \in PageKeys : LoadPage(k)

Spec == InitDb /\ [][Next]_vars

----------------------------------------------------------------------------
(* Runs of the re-key script; the new secret is the configured one *)

InitMigrate ==
    /\ HAS_CRYPTOGRAPHY = TRUE
    /\ st_secrets = Some(NEW_KEY_STR)
    /\ environ = None
    /\ SessionLocal = TRUE
    /\ pages = [k \in PageKeys |-> NoPage]
    /\ db_call = NoCall
    /\ enc_call = NoCall
    /\ dec_call = NoCall
    /\ key_calls = <<NoCall, NoCall>>
    /\ enabled_call = NoCall
    /\ NOTEBOOKS_FILE \in InitialFiles
    /\ reencrypt_call = NoCall
    /\ NoSession
    /\ NoTables
    /\ NoEditor

\* <<"reencrypt", the file before the run, what the run printed last, whether a
\*   run came before this one>>
Reencrypt(iv) ==
    /\ HAS_CRYPTOGRAPHY
    /\ NOTEBOOKS_FILE' = reencrypt(iv)[1]
    /\ reencrypt_call' = <<"reencrypt", NOTEBOOKS_FILE, reencrypt(iv)[2],
                           reencrypt_call # NoCall>>
    /\ UNCHANGED <<cfg_vars, db_vars, log_vars, tbl_vars, ui_vars, auth_vars>>

NextMigrate == \E iv \in Nonces : Reencrypt(iv)

SpecMigrate == InitMigrate /\ [][NextMigrate]_vars

----------------------------------------------------------------------------
(* Sessions of the application and calls of auth.py *)

InitAuth ==
    /\ HAS_CRYPTOGRAPHY = TRUE
    /\ st_secrets = None
    /\ environ = None
    /\ SessionLocal = TRUE
    /\ pages = [k \in PageKeys |-> NoPage]
    /\ db_call = NoCall
    /\ enc_call = NoCall
    /\ dec_call = NoCall
    /\ key_calls = <<NoCall, NoCall>>
    /\ enabled_call = NoCall
    /\ NOTEBOOKS_FILE = NoFile
    /\ reencrypt_call = NoCall
    /\ HAS_STREAMLIT \in BOOLEAN
    /\ st_attrs \in (IF HAS_STREAMLIT THEN SUBSET StAttrs ELSE {{}})
    /\ st_user_is_logged_in = FALSE
    /\ session_state = {}
    /\ auth_call = NoCall
    /\ last_logout = None
    /\ NoTables
    /\ NoEditor

\* a session begins (a restart, another tab): its session_state is empty
NewSession ==
    /\ session_state' = {}
    /\ auth_call' = <<"new_session">>
    /\ UNCHANGED <<cfg_vars, db_vars, log_vars, file_vars, tbl_vars, ui_vars, env_vars, st_user_is_logged_in,
                   last_logout>>

\* the platform's login changes outside the session: the OAuth flow completes (in
\* this or another tab), or the cookie expires
PlatformLogin(v) ==
    /\ HAS_STREAMLIT /\ has_auth_system
    /\ v # st_user_is_logged_in
    /\ st_user_is_logged_in' = v
    /\ last_logout' = IF v THEN None ELSE last_logout
    /\ UNCHANGED <<cfg_vars, db_vars, log_vars, file_vars, tbl_vars, ui_vars, env_vars, session_state,
                   auth_call>>

\* the session comes to hold a 'user_id', the key logout() expects it may hold
SetUserId ==
    /\ HAS_STREAMLIT
    /\ USER_ID \notin session_state
    /\ session_state' = session_state \cup {USER_ID}
    /\ UNCHANGED <<cfg_vars, db_vars, log_vars, file_vars, tbl_vars, ui_vars, env_vars,
                   st_user_is_logged_in, auth_call, last_logout>>

\* <<"is_user_logged_in", returned, session_state before, st.user.is_logged_in,
\*   session_state after, last_logout>>
IsUserLoggedIn ==
    /\ session_state' = is_user_logged_in[2]
    /\ auth_call' = <<"is_user_logged_in", is_user_logged_in[1], session_state,
                      st_user_is_logged_in, is_user_logged_in[2], last_logout>>
    /\ UNCHANGED <<cfg_vars, db_vars, log_vars, file_vars, tbl_vars, ui_vars, env_vars, st_user_is_logged_in,
                   last_logout>>

\* <<"login", st.login() raised, session_state before, st.user.is_logged_in>>.
\* With an auth system the login completes when the platform says so; without one
\* it completes in the call, unless st.login() raised.
Login(raises) ==
    /\ session_state' = login(raises)
    /\ auth_call' = <<"login", raises, session_state, st_user_is_logged_in>>
    /\ last_logout' = IF HAS_STREAMLIT /\ ~has_auth_system
                         /\ ~("login" \in st_attrs /\ raises)
                      THEN None ELSE last_logout
    /\ UNCHANGED <<cfg_vars, db_vars, log_vars, file_vars, tbl_vars, ui_vars, env_vars, st_user_is_logged_in>>

\* <<"logout", st.logout() raised, session_state before, st.user.is_logged_in before,
\*   session_state after>>
Logout(raises) ==
    /\ session_state' = logout(raises)[1]
    /\ st_user_is_logged_in' = logout(raises)[2]
    /\ auth_call' = <<"logout", raises, session_state, st_user_is_logged_in,
                      logout(raises)[1]>>
    /\ last_logout' = IF HAS_STREAMLIT THEN Some(session_state) ELSE last_logout
    /\ UNCHANGED <<cfg_vars, db_vars, log_vars, file_vars, tbl_vars, ui_vars, env_vars>>

NextAuth ==
    \/ NewSession
    \/ \E v \in BOOLEAN : PlatformLogin(v)
    \/ SetUserId
    \/ IsUserLoggedIn
    \/ \E raises \in BOOLEAN : Login(raises)
    \/ \E raises \in BOOLEAN : Logout(raises)

SpecAuth == InitAuth /\ [][NextAuth]_vars

----------------------------------------------------------------------------
(* One session creates, renames and deletes notebooks, sections and pages *)

UserEmails == {"u1", "u2"}
NAME_A == Str(<<97>>)
Names == {NAME_A, Str(<<98>>)}
\* what a form may submit: a name, nothing, a blank
AppNames == Names \cup { <<>>, Str(<<32>>) }
Creates == {"create_notebook", "create_section", "create_page"}

InitCrud ==
    /\ HAS_CRYPTOGRAPHY = TRUE
    /\ st_secrets = None
    /\ environ = None
    /\ SessionLocal \in BOOLEAN
    /\ pages = [k \in PageKeys |-> NoPage]
    /\ db_call = NoCall
    /\ enc_call = NoCall
    /\ dec_call = NoCall
    /\ key_calls = <<NoCall, NoCall>>
    /\ enabled_call = NoCall
    /\ NOTEBOOKS_FILE = NoFile
    /\ reencrypt_call = NoCall
    /\ NoSession
    /\ NoTables
    /\ NoEditor

\* the tables a call leaves; uuid4() gave an id when a row was inserted
Apply(op, result) ==
    /\ (op \in Creates /\ result[4]) => uuid_count < MaxRows
    /\ tbl_notebooks' = result[1]
    /\ tbl_sections' = result[2]
    /\ tbl_pages' = result[3]
    /\ uuid_count' = IF op \in Creates /\ result[4] THEN uuid_count + 1 ELSE uuid_count
    /\ UNCHANGED <<cfg_vars, db_vars, log_vars, file_vars, in_flight, ui_vars, auth_vars>>

\* <<op, name, returned, the tables are as before, an item of that name existed>>
Called(op, name, result, existed) ==
    << op, name, result[4],
       <<result[1], result[2], result[3]>> = <<tbl_notebooks, tbl_sections, tbl_pages>>,
       existed >>

CreateNotebook(user_email, name) ==
    /\ crud_call' = Called("create_notebook", name, create_notebook(user_email, name),
                           Matching(tbl_notebooks, user_email, name) # {})
    /\ Apply("create_notebook", create_notebook(user_email, name))

\* existed: another notebook of the same user has the new name
UpdateNotebookName(notebook_id, new_name) ==
    /\ crud_call' = Called("update_notebook_name", new_name,
                           update_notebook_name(notebook_id, new_name),
                           \E nb \in tbl_notebooks, old \in tbl_notebooks :
                               /\ Id(old) = notebook_id /\ Id(nb) # notebook_id
                               /\ Owner(nb) = Owner(old) /\ Name(nb) = new_name)
    /\ Apply("update_notebook_name", update_notebook_name(notebook_id, new_name))

DeleteNotebook(notebook_id) ==
    /\ crud_call' = Called("delete_notebook", <<>>, delete_notebook_db(notebook_id), FALSE)
    /\ Apply("delete_notebook", delete_notebook_db(notebook_id))

CreateSection(notebook_id, section_name) ==
    /\ crud_call' = Called("create_section", section_name,
                           create_section(notebook_id, section_name),
                           Matching(tbl_sections, notebook_id, section_name) # {})
    /\ Apply("create_section", create_section(notebook_id, section_name))

DeleteSection(notebook_id, section_name) ==
    /\ crud_call' = Called("delete_section", section_name,
                           delete_section_db(notebook_id, section_name), FALSE)
    /\ Apply("delete_section", delete_section_db(notebook_id, section_name))

CreatePageNamed(notebook_id, section_name, page_name) ==
    /\ crud_call' = Called("create_page", page_name,
                           create_page(notebook_id, section_name, page_name),
                           \E sc \in Matching(tbl_sections, notebook_id, section_name) :
                               Matching(tbl_pages, Id(sc), page_name) # {})
    /\ Apply("create_page", create_page(notebook_id, section_name, page_name))

DeletePageNamed(notebook_id, section_name, page_name) ==
    /\ crud_call' = Called("delete_page", page_name,
                           delete_page_db_rows(notebook_id, section_name, page_name), FALSE)
    /\ Apply("delete_page", delete_page_db_rows(notebook_id, section_name, page_name))

NextCrud ==
    \/ \E user_email \in UserEmails, name \in AppNames : CreateNotebook(user_email, name)
    \/ \E nb \in tbl_notebooks, name \in AppNames : UpdateNotebookName(Id(nb), name)
    \/ \E id \in 1..MaxRows : DeleteNotebook(id)
    \/ \E nb \in tbl_notebooks, name \in AppNames : CreateSection(Id(nb), name)
    \/ \E nb \in tbl_notebooks, name \in Names : DeleteSection(Id(nb), name)
    \/ \E nb \in tbl_notebooks, section_name \in Names, page_name \in AppNames :
          CreatePageNamed(Id(nb), section_name, page_name)
    \/ \E nb \in tbl_notebooks, section_name \in Names, page_name \in Names :
          DeletePageNamed(Id(nb), section_name, page_name)

SpecCrud == InitCrud /\ [][NextCrud]_vars

----------------------------------------------------------------------------
(* Two sessions call create_section_db and create_page_db side by side: each  *)
(* call first queries for a row of the name and later adds its row and        *)
(* commits, and the other session's queries and commits may fall in between.  *)

\* one notebook is there, made before any id counted here was drawn
InitRace ==
    /\ HAS_CRYPTOGRAPHY = TRUE
    /\ st_secrets = None
    /\ environ = None
    /\ SessionLocal = TRUE
    /\ pages = [k \in PageKeys |-> NoPage]
    /\ db_call = NoCall
    /\ enc_call = NoCall
    /\ dec_call = NoCall
    /\ key_calls = <<NoCall, NoCall>>
    /\ enabled_call = NoCall
    /\ NOTEBOOKS_FILE = NoFile
    /\ reencrypt_call = NoCall
    /\ NoSession
    /\ tbl_notebooks = { <<0, "u1", NAME_A>> }
    /\ tbl_sections = {}
    /\ tbl_pages = {}
    /\ uuid_count = 0
    /\ crud_call = NoCall
    /\ in_flight = [s \in Sessions |-> NoCall]
    /\ NoEditor

\* the ids the calls under way will still draw
Drawn == uuid_count + Cardinality({ s \in Sessions : in_flight[s] # NoCall })

\* create_section_db up to the query: a section of the name exists and the call
\* returns False, or the call goes on to add its row
QuerySection(s, notebook_id, name) ==
    /\ in_flight[s] = NoCall
    /\ Drawn < MaxRows
    /\ IF Matching(tbl_sections, notebook_id, name) # {}
       THEN /\ crud_call' = <<"create_section_db", name, FALSE, TRUE, TRUE>>
            /\ UNCHANGED in_flight
       ELSE /\ in_flight' = [in_flight EXCEPT ![s] = <<"create_section_db", notebook_id, name>>]
            /\ UNCHANGED crud_call
    /\ UNCHANGED <<cfg_vars, db_vars, log_vars, file_vars, tbl_notebooks, tbl_sections,
                   tbl_pages, uuid_count, ui_vars, auth_vars>>

\* create_section_db from session.add to the commit: it returns True
CommitSection(s) ==
    /\ in_flight[s][1] = "create_section_db"
    /\ tbl_sections' = tbl_sections \cup { <<uuid4, in_flight[s][2], in_flight[s][3]>> }
    /\ uuid_count' = uuid_count + 1
    /\ crud_call' = << "create_section_db", in_flight[s][3], TRUE, FALSE,
                       Matching(tbl_sections, in_flight[s][2], in_flight[s][3]) # {} >>
    /\ in_flight' = [in_flight EXCEPT ![s] = NoCall]
    /\ UNCHANGED <<cfg_vars, db_vars, log_vars, file_vars, tbl_notebooks, tbl_pages,
                   ui_vars, auth_vars>>

\* create_page_db up to its second query; .first() gives one of the sections of
\* the name
QueryPage(s, notebook_id, section_name, page_name) ==
    /\ in_flight[s] = NoCall
    /\ Drawn < MaxRows
    /\ IF Matching(tbl_sections, notebook_id, section_name) = {}
       THEN /\ crud_call' = <<"create_page_db", page_name, FALSE, TRUE, FALSE>>
            /\ UNCHANGED in_flight
       ELSE \E section \in Matching(tbl_sections, notebook_id, section_name) :
                IF Matching(tbl_pages, Id(section), page_name) # {}
                THEN /\ crud_call' = <<"create_page_db", page_name, FALSE, TRUE, TRUE>>
                     /\ UNCHANGED in_flight
                ELSE /\ in_flight' = [in_flight EXCEPT
                                         ![s] = <<"create_page_db", Id(section), page_name>>]
                     /\ UNCHANGED crud_call
    /\ UNCHANGED <<cfg_vars, db_vars, log_vars, file_vars, tbl_notebooks, tbl_sections,
                   tbl_pages, uuid_count, ui_vars, auth_vars>>

\* create_page_db from session.add to the commit: it returns True
CommitPage(s) ==
    /\ in_flight[s][1] = "create_page_db"
    /\ tbl_pages' = tbl_pages \cup { <<uuid4, in_flight[s][2], in_flight[s][3]>> }
    /\ uuid_count' = uuid_count + 1
    /\ crud_call' = << "create_page_db", in_flight[s][3], TRUE, FALSE,
                       Matching(tbl_pages, in_flight[s][2], in_flight[s][3]) # {} >>
    /\ in_flight' = [in_flight EXCEPT ![s] = NoCall]
    /\ UNCHANGED <<cfg_vars, db_vars, log_vars, file_vars, tbl_notebooks, tbl_sections,
                   ui_vars, auth_vars>>

NextRace ==
    \/ \E s \in Sessions, nb \in tbl_notebooks, name \in Names :
          QuerySection(s, Id(nb), name)
    \/ \E s \in Sessions : CommitSection(s)
    \/ \E s \in Sessions, nb \in tbl_notebooks, section_name \in Names, page_name \in Names :
          QueryPage(s, Id(nb), section_name, page_name)
    \/ \E s \in Sessions : CommitPage(s)

SpecRace == InitRace /\ [][NextRace]_vars

----------------------------------------------------------------------------
(* app.py main(): the pages column and the content column of one session.    *)
(* The table holds pages written under earlier configurations; the           *)
(* configuration of the session does not change.                             *)

\* the key of the default user under the secret str
KeyOf(str) == <<"b64", <<"pbkdf2", KeyBytes(str), <<"utf8", "default_user">>,
                          PBKDF2_ITERATIONS>>>>
\* rows the table may hold: "", plain text, an envelope of the secret the session
\* may run under, an envelope of a former secret, and a tagged value that is no hex
StoredRows ==
    { Row(<<>>),
      Row(Str(<<233>>)),
      Row(ENC_MARKER \o Hex(<< Tok(KeyOf(NEW_KEY_STR), << By(195), By(169) >>, 1, 0) >>)),
      Row(ENC_MARKER \o Hex(<< Tok(KeyOf(OLD_KEY_STR), << By(195), By(169) >>, 1, 0) >>)),
      Row(ENC_MARKER \o Str(<<122, 122>>)) }

InitEditor ==
    /\ HAS_CRYPTOGRAPHY = TRUE
    /\ st_secrets \in DbSecretsValues
    /\ environ = None
    /\ SessionLocal = TRUE
    /\ pages \in [PageKeys -> StoredRows]
    /\ db_call = NoCall
    /\ enc_call = NoCall
    /\ dec_call = NoCall
    /\ key_calls = <<NoCall, NoCall>>
    /\ enabled_call = NoCall
    /\ NOTEBOOKS_FILE = NoFile
    /\ reencrypt_call = NoCall
    /\ NoSession
    /\ NoTables
    /\ NoEditor

\* the button of page k is pressed: the page is selected, its content loaded and
\* the script run again
OpenPage(k) ==
    /\ ~rerun_pending
    /\ pages[k] # NoPage
    /\ selected_page' = Some(k)
    /\ page_content' = load_page_content_db(k)[1]
    /\ save_clicked' = FALSE
    /\ rerun_pending' = TRUE
    /\ opened' = Some(<<pages[k], load_page_content_db(k)[1]>>)
    /\ edited' = FALSE
    /\ UNCHANGED <<cfg_vars, db_vars, log_vars, file_vars, tbl_vars, auth_vars>>

\* one run of the script with a page selected: the content column.  pressed: the
\* Save button started the run; text: what the user typed into the editor before
\* the run, if anything (the text_area gives its value, page_content, otherwise,
\* and so does the preview when the editor is hidden)
RunScript(pressed, text, iv) ==
    /\ ~IsNone(selected_page)
    /\ rerun_pending => (~pressed /\ IsNone(text))
    /\ LET k == Val(selected_page)
           current_content == load_page_content_db(k)[1]
           content == IF IsNone(text) THEN current_content ELSE Val(text)
       IN  /\ pages[k] # NoPage
           /\ IF save_clicked \/ pressed
              THEN /\ pages' = save_page_content_db(k, content, iv)
                   /\ rerun_pending' = TRUE
              ELSE IF content # current_content
              THEN /\ pages' = save_page_content_db(k, content, iv)
                   /\ rerun_pending' = FALSE
              ELSE /\ pages' = pages
                   /\ rerun_pending' = FALSE
           /\ page_content' = content
    /\ save_clicked' = FALSE
    /\ edited' = (edited \/ ~IsNone(text))
    /\ UNCHANGED <<cfg_vars, SessionLocal, db_call, log_vars, file_vars, tbl_vars,
                   selected_page, opened, auth_vars>>

NextEditor ==
    \/ \E k \in PageKeys : OpenPage(k)
    \/ \E pressed \in BOOLEAN, text \in {None, Some(<<>>), Some(Str(<<120>>))},
          iv \in Nonces : RunScript(pressed, text, iv)

SpecEditor == InitEditor /\ [][NextEditor]_vars

----------------------------------------------------------------------------
(* Claims about the cipher (SpecCipher) *)

EncData == enc_call[2]
EncUser == enc_call[3]
EncOut == enc_call[4]
EncEnabled == enc_call[5]
EncMaster == enc_call[6]
DecMod == dec_call[2]
DecUser == dec_call[3]
DecOut == dec_call[4]
DecEnabled == dec_call[5]
DecMaster == dec_call[6]
Decrypted == enc_call # NoCall /\ dec_call # NoCall
IsEnvelope(b) == Len(b) = 1 /\ b[1][1] = "tok"
DefaultKey(user_id) == <<"b64", <<"sha256", <<"default_key_", user_id>>>>>>

\* C1: decrypt_data(encrypt_data(p, id), id) returns exactly p whenever encryption
\* is enabled at both calls and the master secret is the same at both calls.
C1_RoundTrip ==
    (Decrypted /\ DecMod = 0 /\ DecUser = EncUser
        /\ EncEnabled /\ DecEnabled /\ EncMaster = DecMaster)
    => DecOut = Ok(EncData)

C1_Witness ==
    /\ Decrypted /\ DecMod = 0 /\ DecUser = EncUser
    /\ EncEnabled /\ DecEnabled /\ EncMaster = DecMaster
    /\ EncData # <<>>
    /\ EncUser = "alice"
    /\ IsEnvelope(EncOut[2])
    /\ DecOut = Ok(EncData)

\* C6: decrypt_data applied to a modified copy of an envelope produced by
\* encrypt_data (same identifier, same secret) fails with a DecryptionError: it
\* raises, and it returns no value.
C6_TamperRaises ==
    (Decrypted /\ IsEnvelope(EncOut[2]) /\ DecMod > 0 /\ DecUser = EncUser
        /\ EncEnabled /\ DecEnabled /\ EncMaster = DecMaster)
    => DecOut[1] = "raise"

\* C7: for non-empty p and two different identifiers under the same master secret,
\* decrypt_data(encrypt_data(p, a), b) fails: it raises, and it returns no value.
C7_IdentifierIsolation ==
    (Decrypted /\ DecMod = 0 /\ DecUser # EncUser /\ EncData # <<>>
        /\ EncEnabled /\ DecEnabled /\ EncMaster = DecMaster)
    => DecOut[1] = "raise"

C12_EncryptFailOpen ==
    enc_call # NoCall
    => /\ EncOut[1] = "ok"
       /\ (~HAS_CRYPTOGRAPHY \/ ~IsBytes(EncData)) => EncOut = Ok(EncData)

\* the encryption step failed under a configured secret and the input came back
C12_Witness ==
    /\ enc_call # NoCall
    /\ HAS_CRYPTOGRAPHY /\ EncEnabled
    /\ ~IsBytes(EncData)
    /\ EncOut = Ok(EncData)

----------------------------------------------------------------------------
(* Claims about is_encryption_enabled (SpecEnabled) and derive_user_key (SpecKeys) *)

\* a master secret is configured: a non-empty string in the secrets or the environment
Configured(secrets, env) ==
    \/ (secrets[1] = "Some" /\ secrets[2] # "")
    \/ (env[1] = "Some" /\ env[2] # "")

\* C9: is_encryption_enabled() returns true iff a master secret is configured at the
\* time of the call and the cryptography library is available; every call reflects
\* the configuration of its own moment.
C9_EnabledIffConfigured ==
    enabled_call # NoCall
    => (enabled_call[2] <=> (HAS_CRYPTOGRAPHY /\ Configured(enabled_call[3], enabled_call[4])))

\* a call that answers true right after a call that answered false, and whose
\* configuration is no longer the current one
C9_Witness ==
    /\ enabled_call # NoCall
    /\ enabled_call[2] = TRUE
    /\ enabled_call[5] = Some(FALSE)
    /\ ~Configured(st_secrets, environ)

\* C10: two calls of derive_user_key with the same identifier and the same master
\* secret return the same key, whatever happened between them.
C10_Deterministic ==
    LET a == key_calls[1]
        b == key_calls[2]
    IN  (a # NoCall /\ b # NoCall /\ a[2] = b[2] /\ a[3] = b[3] /\ a[4] = b[4]
            /\ a[4] # None)
        => a[5] = b[5]

\* two such calls of encryption.derive_user_key under different configurations
C10_Witness ==
    LET a == key_calls[1]
        b == key_calls[2]
    IN  /\ a # NoCall /\ b # NoCall
        /\ a[2] = "encryption" /\ b[2] = "encryption"
        /\ a[3] = b[3] /\ a[4] = b[4] /\ a[4] # None
        /\ a[6] # b[6] /\ ~IsNone(a[6]) /\ ~IsNone(b[6])
        /\ a[5][1] = "b64"
        /\ a[5] = b[5]

\* C11: derive_user_key fails with a KeyDerivationError when the identifier is empty
\* or the master secret is empty, and it does not fail for a non-empty identifier
\* and a non-empty secret.
C11_EmptyInputFails ==
    LET b == key_calls[2]
        EmptyInput == b[3] = "" \/ b[4] = Some(EMPTY_KEY) \/ b[4] = <<"str", "">>
    IN  b # NoCall
        => /\ EmptyInput => b[5] = Raise("KeyDerivationError")
           /\ (~EmptyInput /\ b[4] # None) => b[5][1] # "raise"

----------------------------------------------------------------------------
(* Claims about the persistence layer (Spec) *)

IsSave == db_call[1] = "save"
IsLoad == db_call[1] = "load"
SaveContent == db_call[3]
SaveExisted == db_call[4]
SaveAfter == db_call[5]
SaveEnabled == db_call[6]
SaveMaster == db_call[7]
LoadResult == db_call[3]
LoadDecryptArg == db_call[4]
LoadRow == db_call[5]
LoadEnabled == db_call[6]
LoadMaster == db_call[7]
LoadFollows == db_call[8]
HasMarker(row) == Content(row) # <<>> /\ StartsWith(Content(row), ENC_MARKER)
\* the key of the default user under the master secret mk
UserKey(mk) ==
    <<"b64", <<"pbkdf2", Val(mk), <<"utf8", "default_user">>, PBKDF2_ITERATIONS>>>>
\* the row holds, after the marker, the hex of an unmodified token of the key
Opens(row, key) ==
    LET h == FromHex(From4(Content(row))) IN
    IsOk(h) /\ IsEnvelope(h[2]) /\ h[2][1][2] = key /\ h[2][1][5] = 0

\* C2: with no master secret configured, save_page_content_db(c) on an existing page
\* stores c and the load that follows returns c, whatever c contains.
C2_PlaintextRoundTrip ==
    (IsLoad /\ LoadFollows # None /\ LoadFollows[2][2]
        /\ IsNone(LoadFollows[2][3]) /\ IsNone(LoadMaster))
    => (LoadRow = Row(LoadFollows[2][1]) /\ LoadResult = LoadFollows[2][1])

\* C3: a save of an existing page stores "ENC:" followed by the hex of the envelope
\* of the content when encryption is enabled at that moment, and the content
\* verbatim, no marker added, when it is not.
C3_WriteEncoding ==
    (IsSave /\ SaveExisted)
    => IF SaveEnabled
       THEN \E iv \in Nonces :
               SaveAfter = Row(ENC_MARKER \o
                   Hex(<< Tok(UserKey(SaveMaster), Utf8Encode(SaveContent), iv, 0) >>))
       ELSE SaveAfter = Row(SaveContent)

C3_Witness ==
    /\ IsSave /\ SaveExisted /\ SaveEnabled
    /\ SaveContent = Str(<<233>>)
    /\ HasMarker(SaveAfter)
    /\ Opens(SaveAfter, UserKey(SaveMaster))

\* C4 as stated: on load of an existing page a stored value that starts with "ENC:"
\* is hex-decoded after the marker and passed to decrypt_data, and a stored value
\* without the marker is returned verbatim.
C4_DispatchAsStated ==
    (IsLoad /\ LoadRow # NoPage)
    => /\ (HasMarker(LoadRow) /\ IsOk(FromHex(From4(Content(LoadRow)))))
            => LoadDecryptArg = Some(FromHex(From4(Content(LoadRow)))[2])
       /\ ~HasMarker(LoadRow) => LoadResult = Content(LoadRow)

\* C4 amended: a stored value that starts with "ENC:" is hex-decoded after the marker
\* and passed to decrypt_data when encryption is enabled (a remainder that is no hex
\* is passed nowhere and yields "Error decrypting content"); when encryption is
\* disabled nothing is decoded and the text "Content is encrypted but encryption is
\* disabled." is returned; a stored value without the marker is returned verbatim,
\* also when encryption is enabled.
C4_ReadDispatch ==
    (IsLoad /\ LoadRow # NoPage)
    => /\ (HasMarker(LoadRow) /\ LoadEnabled /\ IsOk(FromHex(From4(Content(LoadRow)))))
            => LoadDecryptArg = Some(FromHex(From4(Content(LoadRow)))[2])
       /\ (HasMarker(LoadRow) /\ LoadEnabled /\ ~IsOk(FromHex(From4(Content(LoadRow)))))
            => (LoadDecryptArg = None /\ LoadResult = ERR_DECRYPT)
       /\ (HasMarker(LoadRow) /\ ~LoadEnabled)
            => (LoadDecryptArg = None /\ LoadResult = ERR_DISABLED)
       /\ ~HasMarker(LoadRow)
            => (LoadDecryptArg = None /\ LoadResult = Content(LoadRow))

\* legacy plaintext read verbatim while encryption is enabled
C4_Witness ==
    /\ IsLoad /\ LoadRow # NoPage /\ LoadEnabled
    /\ ~HasMarker(LoadRow)
    /\ Content(LoadRow) = Str(<<233>>)
    /\ LoadResult = Str(<<233>>)

\* the row holds, after the marker, the hex of an unmodified token of another key
OfAnotherKey(row, key) ==
    LET h == FromHex(From4(Content(row))) IN
    IsOk(h) /\ IsEnvelope(h[2]) /\ h[2][1][2] # key /\ h[2][1][5] = 0

\* C5: whenever encryption is enabled and a stored "ENC:"-tagged value cannot be
\* decrypted under the current key, load_page_content_db returns
\* "Error decrypting content"; stated here for the first of the claim's cases, an
\* envelope written under another master secret.
C5_Sentinel ==
    (IsLoad /\ LoadRow # NoPage /\ LoadEnabled /\ HasMarker(LoadRow)
        /\ OfAnotherKey(LoadRow, UserKey(LoadMaster)))
    => LoadResult = ERR_DECRYPT

\* the key the cipher derives for the default user under the present configuration
CurrentKey == derive_user_key(DEFAULT_USER, None)
\* the row holds, after the marker, the hex of a Fernet token
HoldsEnvelope(row) ==
    LET h == FromHex(From4(Content(row))) IN IsOk(h) /\ IsEnvelope(h[2])

\* C13: after any sequence of saves, encryption toggles and master-secret changes
\* every stored value is untagged plaintext or tagged "ENC:" and decryptable by the
\* current derived key: no stored value is tagged yet undecryptable under the
\* current key.  Stated here for the tagged values that hold an envelope written
\* by a save.
C13_StorageInvariant ==
    \A k \in PageKeys :
        (pages[k] # NoPage /\ HasMarker(pages[k]) /\ HoldsEnvelope(pages[k]))
        => Opens(pages[k], CurrentKey)

\* C14: a change of the master secret (on, off, or another one) leaves every stored
\* value unchanged; a page's stored value changes only in a call that creates,
\* deletes or saves that page, and a save writes the representation of the
\* encryption-enabled flag and key of its own moment.
C14_NotRetroactive ==
    [][ /\ (cfg_vars' # cfg_vars) => (pages' = pages)
        /\ \A k \in PageKeys :
              (pages'[k] # pages[k])
              => (db_call'[1] \in {"create", "delete", "save"} /\ db_call'[2] = k)
        /\ (pages' # pages /\ db_call'[1] = "save")
           => LET k == db_call'[2]
                  content == db_call'[3]
              IN  IF is_encryption_enabled
                  THEN \E iv \in Nonces :
                          pages'[k] = Row(ENC_MARKER \o
                              Hex(<< Tok(CurrentKey, Utf8Encode(content), iv, 0) >>))
                  ELSE pages'[k] = Row(content)
      ]_vars

\* a row written under the old secret is still there, unchanged, after the secret
\* was turned off, and a load has read it
C14_Witness ==
    \E k \in PageKeys :
        /\ pages[k] # NoPage /\ HasMarker(pages[k])
        /\ Opens(pages[k], UserKey(Some(KeyBytes(OLD_KEY_STR))))
        /\ HAS_CRYPTOGRAPHY /\ ~is_encryption_enabled
        /\ IsLoad /\ LoadRow = pages[k]

----------------------------------------------------------------------------
(* Claims about the re-key script (SpecMigrate) *)

Ran == reencrypt_call # NoCall
FileBefore == reencrypt_call[2]
Report == reencrypt_call[3]
RanBefore == reencrypt_call[4]
\* the document a file holds for a reader that has the key: Ok(document), or a raise
DocUnder(file, key) ==
    IF file = NoFile THEN Raise("FileNotFoundError")
    ELSE LET d == Fernet_decrypt(<<"Fernet", key>>, Bytes(file))
             t == IF IsOk(d) THEN Utf8Decode(d[2]) ELSE d
         IN  IF IsOk(t) THEN json_loads(t[2]) ELSE t
\* the document a file holds in plain text
DocPlain(file) ==
    IF file = NoFile THEN Raise("FileNotFoundError")
    ELSE LET t == Utf8Decode(Bytes(file)) IN IF IsOk(t) THEN json_loads(t[2]) ELSE t
\* the key the application derives for the default user under the new secret
AppNewKey == derive_user_key(DEFAULT_USER, Some(KeyBytes(NEW_KEY_STR)))
Unreadable(file) == ~IsOk(DocUnder(file, OLD_USER_KEY)) /\ ~IsOk(DocPlain(file))

\* C15: if the stored data can be read neither by decrypting under the old key nor
\* as plain-text JSON, reencrypt() ends without modifying the stored data.
C15_NoWriteOnReadFailure ==
    (Ran /\ Unreadable(FileBefore)) => NOTEBOOKS_FILE = FileBefore

\* a first run on a file that exists and is an envelope of the old key that was
\* modified
C15_Witness ==
    /\ Ran /\ ~RanBefore /\ Unreadable(FileBefore)
    /\ FileBefore # NoFile
    /\ Len(Bytes(FileBefore)) = 1 /\ Bytes(FileBefore)[1][1] = "tok"
    /\ Bytes(FileBefore)[1][5] = 1
    /\ Report = "fatal"
    /\ NOTEBOOKS_FILE = FileBefore

\* the document the file held before the run, for a reader of the old key or of
\* plain text
ContentBefore ==
    IF IsOk(DocUnder(FileBefore, OLD_USER_KEY)) THEN DocUnder(FileBefore, OLD_USER_KEY)
    ELSE DocPlain(FileBefore)
IsTokenOf(file, key) ==
    /\ file # NoFile /\ IsEnvelope(Bytes(file))
    /\ Bytes(file)[1][2] = key /\ Bytes(file)[1][5] = 0

\* C16: after a run, data that was stored encrypted under the old secret and data
\* that was stored as plain text are stored encrypted under the new secret, and
\* decrypt under the key the application derives from the new secret to the
\* document they held before the run.
C16_MigrationResult ==
    (Ran /\ ~Unreadable(FileBefore))
    => /\ Report = "saved"
       /\ IsTokenOf(NOTEBOOKS_FILE, AppNewKey)
       /\ ~IsOk(DocPlain(NOTEBOOKS_FILE))
       /\ DocUnder(NOTEBOOKS_FILE, AppNewKey) = ContentBefore

\* a plain-text document of two entries, now an envelope of the new key
C16_Witness ==
    /\ Ran /\ IsOk(DocPlain(FileBefore))
    /\ Len(ContentBefore[2]) = 2
    /\ IsTokenOf(NOTEBOOKS_FILE, AppNewKey)
    /\ DocUnder(NOTEBOOKS_FILE, AppNewKey) = ContentBefore

\* C17: a second run in succession leaves the stored data decryptable under the new
\* key to the same document as after the first run.
C17_Idempotent ==
    (Ran /\ RanBefore /\ IsOk(DocUnder(FileBefore, AppNewKey)))
    => DocUnder(NOTEBOOKS_FILE, AppNewKey) = DocUnder(FileBefore, AppNewKey)

\* the second run after a run that migrated a document encrypted under the old key
C17_Witness ==
    /\ Ran /\ RanBefore
    /\ IsTokenOf(FileBefore, AppNewKey)
    /\ IsOk(DocUnder(NOTEBOOKS_FILE, AppNewKey))
    /\ DocUnder(NOTEBOOKS_FILE, AppNewKey) = DocUnder(FileBefore, AppNewKey)

\* C18: when the stored data holds several entries and one of them is unreadable,
\* the run reports the failure and every other entry is still re-encrypted under
\* the new key: after the run each of them is read under the new key.
C18_IndependentValues ==
    \A doc \in Docs : \A i \in 1..Len(doc) :
        (Ran /\ Len(doc) >= 2 /\ FileBefore = File(Damaged(doc, i)))
        => LET after == DocUnder(NOTEBOOKS_FILE, AppNewKey) IN
           /\ IsOk(after)
           /\ \A j \in (1..Len(doc)) \ {i} :
                 \E n \in 1..Len(after[2]) : after[2][n] = doc[j]

----------------------------------------------------------------------------
(* Claims about auth.py (SpecAuth) *)

IsCheck == auth_call[1] = "is_user_logged_in"
CheckResult == auth_call[2]
CheckSession == auth_call[3]
CheckPlatform == auth_call[4]

\* C19: in a session whose state holds neither 'authenticated_in_session' nor
\* 'login_attempted', is_user_logged_in() returns False, also when the platform's
\* persisted authentication reports the user as logged in.
C19_ExplicitLoginPerSession ==
    (IsCheck /\ HAS_STREAMLIT /\ has_auth_system
        /\ CheckSession \cap {AUTHENTICATED, LOGIN_ATTEMPTED} = {})
    => CheckResult = FALSE

\* C20: where st.user.is_logged_in is not available, is_user_logged_in() returns
\* True in every session state.
C20_NoAuthDefault ==
    (IsCheck /\ ~has_auth_system) => CheckResult = TRUE

IsLogout == auth_call[1] = "logout"
CheckAfter == auth_call[5]
CheckLastLogout == auth_call[6]

\* C21: after logout(), from any session state and also when st.logout() raised,
\* none of 'authenticated_in_session', 'login_attempted' and 'user_id' is in the
\* session state; and while no login has completed since and the auth system (if
\* there is one) reports the user as logged out, is_user_logged_in() returns False.
C21_LogoutClears ==
    /\ (IsLogout /\ HAS_STREAMLIT) => (auth_call[5] \cap SessionKeys = {})
    /\ (IsCheck /\ HAS_STREAMLIT /\ ~IsNone(CheckLastLogout)
            /\ ~(has_auth_system /\ CheckPlatform))
        => CheckResult = FALSE

\* a check after the logout of a session that held all three keys and whose
\* 'login_attempted' flag was set again since
C21_Witness ==
    /\ IsCheck /\ HAS_STREAMLIT /\ has_auth_system
    /\ ~IsNone(CheckLastLogout) /\ Val(CheckLastLogout) = SessionKeys
    /\ LOGIN_ATTEMPTED \in CheckSession
    /\ ~CheckPlatform
    /\ CheckResult = FALSE

\* C27: where st.user.is_logged_in is available, is_user_logged_in() returns True
\* only if st.user.is_logged_in is True at the call; a flag in the session alone
\* grants nothing, and an 'authenticated_in_session' flag found while the user is
\* logged out is removed together with 'login_attempted'.
C27_AccessRequiresPlatformLogin ==
    (IsCheck /\ HAS_STREAMLIT /\ has_auth_system)
    => /\ CheckResult => CheckPlatform
       /\ (AUTHENTICATED \in CheckSession /\ ~CheckPlatform)
            => (CheckAfter \cap {AUTHENTICATED, LOGIN_ATTEMPTED} = {})

\* a session that carries both flags is refused and loses them
C27_Witness ==
    /\ IsCheck /\ HAS_STREAMLIT /\ has_auth_system
    /\ {AUTHENTICATED, LOGIN_ATTEMPTED} \subseteq CheckSession
    /\ ~CheckPlatform
    /\ CheckResult = FALSE
    /\ CheckAfter \cap {AUTHENTICATED, LOGIN_ATTEMPTED} = {}

----------------------------------------------------------------------------
(* Notebooks, sections and pages by name *)

IsCreateCall == crud_call[1] \in Creates
CallName == crud_call[2]
CallReturned == crud_call[3]
CallUnchanged == crud_call[4]
CallExisted == crud_call[5]
Blank(name) == name = <<>> \/ \A i \in 1..Len(name) : name[i][2] \in {32, 9, 10, 11, 12, 13}

\* C22: create_notebook, create_section and create_page return False and leave the
\* stored notebooks, sections and pages unchanged when the name is empty or only
\* white space, or when an item of that name already exists in the same scope.
C22_RefusedCreate ==
    (IsCreateCall /\ (Blank(CallName) \/ CallExisted))
    => (~CallReturned /\ CallUnchanged)

\* create_page was refused for a name a page of the section already has
C22_Witness ==
    /\ crud_call[1] = "create_page"
    /\ CallExisted /\ ~Blank(CallName) /\ ~CallReturned /\ CallUnchanged
    /\ tbl_pages # {}

\* C25: after any sequence of create_notebook_db, update_notebook_name_db and
\* delete_notebook_db calls of one session, no two notebooks of one user have the
\* same name.
C25_UniqueNotebookNames ==
    \A a \in tbl_notebooks, b \in tbl_notebooks :
        (Owner(a) = Owner(b) /\ Name(a) = Name(b)) => a = b

\* the structure get_user_notebooks gives the user shows the section, the page
ShowsSection(sc) ==
    \A nb \in tbl_notebooks :
        Id(nb) = Owner(sc) => get_user_notebooks(Owner(nb))[Id(nb)][Name(sc)][1] = Id(sc)
ShowsPage(pg) ==
    \A sc \in tbl_sections :
        Id(sc) = Owner(pg)
        => /\ ShowsSection(sc)
           /\ Cardinality(Matching(tbl_pages, Id(sc), Name(pg))) = 1

\* C26: when two sessions run create_section_db (or create_page_db) with the same
\* name and their checks and inserts interleave, at most one of them inserts: the
\* structure get_user_notebooks returns, keyed by name, never hides a stored section
\* or page.
C26_NothingHidden ==
    /\ \A sc \in tbl_sections : ShowsSection(sc)
    /\ \A pg \in tbl_pages : ShowsPage(pg)

----------------------------------------------------------------------------
(* Saves and loads while one master secret stays configured and the cipher   *)
(* may fail inside a save                                                    *)

\* the contents above, "a", and the text of an envelope of "a" under the key of
\* these runs, as the table shows it to whoever looks into it
RoundTripContents ==
    Contents \cup { Str(<<97>>), << Txt(Tok(KeyOf(NEW_KEY_STR), << By(97) >>, 1, 0)) >> }

InitRoundTrip ==
    /\ HAS_CRYPTOGRAPHY = TRUE
    /\ st_secrets = Some(NEW_KEY_STR)
    /\ environ = None
    /\ SessionLocal = TRUE
    /\ pages = [k \in PageKeys |-> NoPage]
    /\ db_call = NoCall
    /\ enc_call = NoCall
    /\ dec_call = NoCall
    /\ key_calls = <<NoCall, NoCall>>
    /\ enabled_call = NoCall
    /\ NOTEBOOKS_FILE = NoFile
    /\ reencrypt_call = NoCall
    /\ NoSession
    /\ NoTables
    /\ NoEditor

NextRoundTrip ==
    \/ \E k \in PageKeys : CreatePage(k)
    \/ \E k \in PageKeys : DeletePage(k)
    \/ \E k \in PageKeys, content \in RoundTripContents, iv \in 0..MaxNonce :
          SavePage(k, content, iv)
    \/ \E k \in PageKeys : LoadPage(k)

SpecRoundTrip == InitRoundTrip /\ [][NextRoundTrip]_vars

\* C24: while encryption stays enabled under one unchanged master secret, for every
\* existing page and every content c, load_page_content_db after
\* save_page_content_db(c) returns c, also when encrypt_data failed open and
\* returned the plaintext, and also for the empty string.
C24_RoundTripEnabled ==
    (IsLoad /\ ~IsNone(LoadFollows) /\ Val(LoadFollows)[2] /\ LoadEnabled
        /\ Val(LoadFollows)[3] = LoadMaster)
    => LoadResult = Val(LoadFollows)[1]

----------------------------------------------------------------------------
(* The editor *)

OpenedRow == Val(opened)[1]
OpenedShown == Val(opened)[2]
\* the text of the envelope the row holds
EnvelopeText(row) ==
    LET h == FromHex(From4(Content(row))) IN
    IF IsOk(h) /\ IsEnvelope(h[2]) THEN Utf8Decode(h[2]) ELSE Raise("ValueError")
\* the load gave a placeholder for the tagged value of the row
IsPlaceholder(row, shown) ==
    /\ HasMarker(row)
    /\ \/ shown = ERR_DECRYPT
       \/ shown = ERR_DISABLED
       \/ EnvelopeText(row) = Ok(shown)

\* C23: when loading a page yields a placeholder instead of its content ("Error
\* decrypting content", "Content is encrypted but encryption is disabled.", or the
\* text of the envelope), no sequence of opening the page, pressing Save and reruns
\* in which the user does not edit the text replaces the stored value of the page.
C23_NoLossThroughPlaceholder ==
    (~IsNone(opened) /\ ~edited /\ IsPlaceholder(OpenedRow, OpenedShown))
    => pages[Val(selected_page)] = OpenedRow

====
